---- MODULE Spec2Model ----
\* A model of data-collection/match-scraper-aws.py: the sliding-window rate
\* limiter (rate_limit_sleep), the API call with retry on 429 (make_api_call),
\* the PUUID cache, the checkpoint file, the match archive and the collection
\* loop (collect_data).
\*
\* Time is counted in ticks of half a second, the resolution of the shortest
\* sleep of the program (time.sleep(0.5), line 165).
EXTENDS Integers, Sequences, FiniteSets, TLC

\* ---------------------------------------------------------------- bounds --
\* The limiter's parameters, scaled down (the program sets 100 and 120).
REQUEST_LIMIT == 2
WINDOW_SECONDS == 2
\* External time that may pass between the calls of the limiter on its own.
MaxTicks == 3
\* HTTP requests issued by the API client on its own.
MaxAttempts == 3
\* The collection loop: tiers below DIAMOND, divisions, the largest quota,
\* the ids of summoners and of matches, the answers other than failures and
\* empty bodies that the server gives in all, and the processes started in a
\* row.
NumLowerTiers == 1
NumDivisions == 2
MaxQ == 2
NumIds == 2
MaxServed == 4
MaxRuns == 2

TicksPerSecond == 2
Window == WINDOW_SECONDS * TicksPerSecond
\* Enough admissions to fill the window twice and once more.
MaxCalls == 2 * REQUEST_LIMIT + 2

VARIABLES
  clock,               \* datetime.now(), in ticks
  request_timestamps,  \* the global list of line 36
  admitLog,            \* history: one record [stamp, ret] per admit() call
  ticks,               \* history: external time passed so far
  apiPc,               \* make_api_call on its own: "off", "calling", "done", "raised"
  script,              \* history: the responses this make_api_call received
  sleeps,              \* history: the 429 sleeps of this make_api_call, in ticks
  result,              \* what this make_api_call returned
  requests,            \* history: HTTP requests issued by this process
  admits,              \* history: rate_limit_sleep calls returned in this process
  pc,                  \* where the process is
  runs,                \* processes started so far
  apiKey,              \* whether RIOT_API_KEY is set
  entered,             \* history: the number typed at the prompt, -1 = none
  quota,               \* matches_per_tier
  state,               \* the dict `state` of collect_data: bucket -> page, 0 = no entry
  stateFile,           \* state.json: [exists, data]
  puuid_cache,         \* summoner id -> -1 (not cached), 0 (None) or the puuid
  files,               \* the match files: <<folder of the tier, division, match id>>
  csv,                 \* match_ids.csv: its rows, the header included
  ti, di,              \* the positions of the two for loops over tiers and divisions
  page, collected, done,
  players,             \* what is left of `for player in players`, the current one first
  puuid,               \* the puuid of the current player
  matches,             \* what is left of `for match_id in matches[:5]`
  served,              \* the server: 429s and non-empty bodies given so far
  visited,             \* history: the buckets this run has begun, in order
  firstListing,        \* history: bucket -> page of its first listing request, 0 = none
  lastReq,             \* history: the last HTTP request issued
  lookups,             \* history: summoner id -> account lookups (make_api_call) made
  nwrites,             \* history: match files written, over all runs
  lastSave,            \* history: the last save_match call and what it returned
  lastResolve,         \* history: the last get_puuid call and what it returned
  disk0                \* history: the files as they were when the process started

limiterVars == <<clock, request_timestamps, admitLog, ticks>>
apiVars == <<apiPc, script, sleeps, result>>
countVars == <<requests, admits>>
diskVars == <<stateFile, files, csv>>
loopVars == <<ti, di, page, collected, done, players, puuid, matches>>
envVars == <<served>>
histVars == <<visited, firstListing, lastReq, lookups, nwrites, lastSave,
              lastResolve, disk0>>
runVars == <<pc, runs, apiKey, entered, quota, state, puuid_cache, diskVars, loopVars,
             envVars, histVars>>
vars == <<limiterVars, apiVars, countVars, runVars>>

Max(a, b) == IF a >= b THEN a ELSE b

\* ------------------------------------------------------- rate_limit_sleep --
\* line 57: keep the timestamps younger than the window
Prune(ts, now) == SelectSeq(ts, LAMBDA t : t > now - Window)

\* the comparison off by one
LimitReachedMutant(ts) == Len(ts) > REQUEST_LIMIT

\* line 58
LimitReached(ts) == Len(ts) >= REQUEST_LIMIT

\* lines 59-62: the sleep, floored at zero
SleepTime(ts, now) ==
  IF LimitReached(ts) THEN Max((ts[1] + Window) - now, 0) ELSE 0

\* line 63: the value appended to request_timestamps
Stamp(now, wake) == now

\* rate_limit_sleep as a function of (clock, request_timestamps): the clock on
\* return, the list on return and the timestamp recorded.
RateLimitSleep(now, ts0) ==
  LET ts   == Prune(ts0, now)
      wake == now + SleepTime(ts, now)
  IN  [clock |-> wake,
       ts    |-> Append(ts, Stamp(now, wake)),
       stamp |-> Stamp(now, wake)]

\* ----------------------------------------------------------- make_api_call --
\* A response of the server to one requests.get: net = "error" is a transport
\* exception; otherwise a status, the Retry-After header ("" when absent),
\* whether the body decodes as JSON, and the decoded body. A JSON value is
\* modelled as a sequence of identifiers: a list of summoner ids, a list of
\* match ids, <<p>> for an object holding puuid p, <<m>> for the record of
\* match m, <<>> for an empty list or object.
Absent == ""
RetryAfterHeaders == {Absent, "0", "1", "1.5", "Wed, 21 Oct 2015 07:28:00 GMT"}

Throttled(h) ==
  [net |-> "ok", status |-> 429, retryAfter |-> h, json |-> FALSE, body |-> <<>>]
Success(b) ==
  [net |-> "ok", status |-> 200, retryAfter |-> Absent, json |-> TRUE, body |-> b]
Failures ==
  { [net |-> "error", status |-> 0, retryAfter |-> Absent, json |-> FALSE, body |-> <<>>],
    [net |-> "ok", status |-> 404, retryAfter |-> Absent, json |-> TRUE, body |-> <<>>],
    [net |-> "ok", status |-> 500, retryAfter |-> Absent, json |-> FALSE, body |-> <<>>],
    [net |-> "ok", status |-> 200, retryAfter |-> Absent, json |-> FALSE, body |-> <<>>] }

IsThrottle(r) == r.net = "ok" /\ r.status = 429
IsSuccess(r) == r.net = "ok" /\ r.status \in 200..299 /\ r.json
IsFailure(r) == ~IsThrottle(r) /\ ~IsSuccess(r)

\* int() of Python on the header values of the model: the decimal literals
\* convert, anything else raises ValueError.
IntLiterals == [s \in {"0", "1"} |-> IF s = "0" THEN 0 ELSE 1]
PyInt(s) ==
  IF s \in DOMAIN IntLiterals
  THEN [err |-> "no", val |-> IntLiterals[s]]
  ELSE [err |-> "ValueError", val |-> 0]

\* line 72: int(response.headers.get("Retry-After", 10)), in seconds
DefaultRetryAfter == 10
RetryAfter(r) ==
  IF r.retryAfter = Absent
  THEN [err |-> "no", val |-> DefaultRetryAfter]
  ELSE PyInt(r.retryAfter)

\* lines 70-77: what the body of the try block raises on response r, or "no"
Raised(r) ==
  CASE r.net = "error" -> "ConnectionError"                       \* line 70
    [] IsThrottle(r) /\ RetryAfter(r).err # "no" -> RetryAfter(r).err  \* line 72
    [] IsThrottle(r) -> "no"
    [] r.status >= 400 -> "HTTPError"                              \* line 76
    [] ~r.json -> "JSONDecodeError"                                \* line 77
    [] OTHER -> "no"

\* a handler for HTTP errors only
CaughtMutant(e) == e = "HTTPError"

\* line 78: except Exception catches every one of them
Caught(e) == e \in {"ConnectionError", "ValueError", "HTTPError", "JSONDecodeError"}

\* lines 71-80: what one iteration of the loop does with response r:
\* "retry" (continue, after sleeping `sleep` ticks), "none" (return None),
\* "json" (return the body) or "raise" (an exception leaves the function).
Handle(r) ==
  LET e == Raised(r) IN
  IF e # "no"
  THEN [kind |-> IF Caught(e) THEN "none" ELSE "raise", val |-> <<>>, sleep |-> 0]
  ELSE IF IsThrottle(r)
       THEN [kind |-> "retry", val |-> <<>>, sleep |-> RetryAfter(r).val * TicksPerSecond]
       ELSE [kind |-> "json", val |-> r.body, sleep |-> 0]

\* the request goes out without rate_limit_sleep()
AttemptMutant(now, ts0, r) ==
  LET h == Handle(r)
  IN  [clock |-> now + h.sleep, ts |-> ts0, stamp |-> now, admitted |-> now,
       admits |-> 0, kind |-> h.kind, val |-> h.val, sleep |-> h.sleep]

\* lines 68-80: one iteration of the loop of make_api_call, on response r:
\* rate_limit_sleep, the request, the handling of the response.
Attempt(now, ts0, r) ==
  LET a == RateLimitSleep(now, ts0)
      h == Handle(r)
  IN  [clock |-> a.clock + h.sleep, ts |-> a.ts, stamp |-> a.stamp,
       admitted |-> a.clock, admits |-> 1, kind |-> h.kind, val |-> h.val,
       sleep |-> h.sleep]

\* ----------------------------------------------------------- configuration --
AllTiers == <<"IRON", "BRONZE", "SILVER", "GOLD", "PLATINUM", "EMERALD", "DIAMOND">>
\* line 17, cut down to DIAMOND and the NumLowerTiers tiers below it
TIERS == SubSeq(AllTiers, Len(AllTiers) - NumLowerTiers, Len(AllTiers))
AllDivisions == <<"I", "II", "III", "IV">>
\* line 18, cut down to the first NumDivisions divisions
DIVISIONS == SubSeq(AllDivisions, 1, NumDivisions)

Range(q) == {q[i] : i \in DOMAIN q}
Reversed(q) == [i \in 1..Len(q) |-> q[Len(q) + 1 - i]]
Buckets == Range(TIERS) \X Range(DIVISIONS)
Ids == 1..NumIds

\* the check left out
KeyMissingMutant(k) == FALSE

\* line 12: if not API_KEY
KeyMissing(k) == ~k

\* ------------------------------------------------- load_state, save_state --
NoEntries == [b \in Buckets |-> 0]
\* lines 42-46
LoadState(f) == IF f.exists THEN f.data ELSE NoEntries
\* lines 48-50
SaveState(st) == [exists |-> TRUE, data |-> st]
\* the checkpoint ignored
StateGetMutant(st, tier, division) == 1

\* line 137: state.get(tier, {}).get(division, 1)
StateGet(st, tier, division) ==
  IF st[<<tier, division>>] = 0 THEN 1 ELSE st[<<tier, division>>]
\* the page after the one processed is written
StateSetMutant(st, tier, division, p) == [st EXCEPT ![<<tier, division>>] = p + 1]

\* line 162: state.setdefault(tier, {})[division] = page
StateSet(st, tier, division, p) == [st EXCEPT ![<<tier, division>>] = p]

\* ------------------------------------------------------------- get_puuid --
NotCached == -1
NoPuuid == 0
\* the puuid the server holds for summoner s
PuuidOf(s) == 100 + s
\* line 88
InCache(cache, s) == cache[s] # NotCached
\* line 92: data.get("puuid") if data else None
PuuidField(out) == IF out.kind = "json" /\ out.val # <<>> THEN out.val[1] ELSE NoPuuid
\* only a puuid that was found is cached
CacheStoreMutant(cache, s, p) ==
  IF p = NoPuuid THEN cache ELSE [cache EXCEPT ![s] = p]

\* line 93
CacheStore(cache, s, p) == [cache EXCEPT ![s] = p]

\* ------------------------------------------- save_match, save_match_id_csv --
\* str.lower() on the tier names
Lower(tier) ==
  CASE tier = "IRON" -> "iron"         [] tier = "BRONZE" -> "bronze"
    [] tier = "SILVER" -> "silver"     [] tier = "GOLD" -> "gold"
    [] tier = "PLATINUM" -> "platinum" [] tier = "EMERALD" -> "emerald"
    [] tier = "DIAMOND" -> "diamond"
\* lines 102-104: matches/<tier.lower()>/<division>/<match_id>.json
FilePath(match_id, tier, division) == <<Lower(tier), division, match_id>>
\* the existence check left out
ExistsMutant(path, fs) == FALSE

\* line 106: os.path.exists(file_path)
Exists(path, fs) == path \in fs
\* the payload is stored whatever it is
TruthyMutant(out) == TRUE

\* line 111: if data
Truthy(out) == out.kind = "json" /\ out.val # <<>>

\* an empty page of players is processed like any other
NoPlayersMutant(out) == out.kind # "json"

\* line 142: `if not players`
NoPlayers(out) == ~Truthy(out)

HeaderRow == [header |-> TRUE, match_id |-> 0, tier |-> "tier", division |-> "division"]
Row(m, tier, division) ==
  [header |-> FALSE, match_id |-> m, tier |-> tier, division |-> division]
\* lines 119-125
SaveMatchIdCsv(c, m, tier, division) ==
  [exists |-> TRUE,
   rows   |-> (IF c.exists THEN c.rows ELSE <<HeaderRow>>) \o <<Row(m, tier, division)>>]

\* ----------------------------------------------------------- collect_data --
\* no reversal for DIAMOND
DivisionsToProcessMutant(tier) == DIVISIONS

\* line 132
DivisionsToProcess(tier) ==
  IF tier = "DIAMOND" THEN Reversed(DIVISIONS) ELSE DIVISIONS

\* line 154: matches[:5]
SliceLen == 5
Take(q, n) == SubSeq(q, 1, IF Len(q) < n THEN Len(q) ELSE n)

\* line 140: where the while loop goes
WhilePc(c, q, d) == IF c < q /\ ~d THEN "get_players" ELSE "end_bucket"

\* the comparison off by one
QuotaMetMutant(c, q) == c > q

\* lines 146, 155
QuotaMet(c, q) == c >= q

\* line 165: time.sleep(0.5), in ticks
PageSleep == 1

Tier == TIERS[ti]
Division == DivisionsToProcess(Tier)[di]

Req(kind, pg, id) ==
  [kind |-> kind, tier |-> Tier, division |-> Division, page |-> pg, id |-> id,
   got |-> "nothing"]
NotEntered == -1

NoReq ==
  [kind |-> "none", tier |-> "", division |-> "", page |-> 0, id |-> 0,
   got |-> "nothing"]
NoSave == [path |-> <<"", "", 0>>, ret |-> "none"]
NoResolve == [id |-> 0, hit |-> FALSE, val |-> NoPuuid]

\* What the server may answer to a request of the run whose success bodies
\* are `bodies`.
RunResponses(bodies) ==
  Failures \cup {Success(<<>>)}
           \cup (IF served < MaxServed
                 THEN {Throttled("1")} \cup {Success(b) : b \in bodies}
                 ELSE {})

\* The non-empty pages of players and lists of match ids the server gives:
\* one or two entries, and a list of match ids longer than the slice.
PlayerLists == {<<1>>} \cup {<<1, s>> : s \in Ids}
MatchLists ==
  {<<m>> : m \in Ids} \cup {<<m, n>> : m, n \in Ids} \cup {<<1, 1, 1, 1, 1, 2>>}

ApiOff ==
  /\ apiPc = "off"
  /\ script = <<>>
  /\ sleeps = <<>>
  /\ result = [kind |-> "none", val |-> <<>>]

Disk == [files |-> files, csv |-> csv, stateFile |-> stateFile]

frozen == <<admitLog, ticks, apiVars>>

\* The state every process starts in (the files are kept).
Fresh ==
  /\ pc' = "startup"
  /\ clock' = 0
  /\ request_timestamps' = <<>>
  /\ requests' = 0
  /\ admits' = 0
  /\ entered' = NotEntered
  /\ quota' = 0
  /\ state' = NoEntries
  /\ puuid_cache' = [s \in Ids |-> NotCached]
  /\ ti' = 1 /\ di' = 1 /\ page' = 1 /\ collected' = 0 /\ done' = FALSE
  /\ players' = <<>> /\ puuid' = NoPuuid /\ matches' = <<>>
  /\ visited' = <<>>
  /\ firstListing' = NoEntries
  /\ lastReq' = NoReq
  /\ lookups' = [s \in Ids |-> 0]
  /\ lastSave' = NoSave
  /\ lastResolve' = NoResolve

\* lines 11-13: the module's configuration section
Startup ==
  /\ pc = "startup"
  /\ pc' = IF KeyMissing(apiKey) THEN "fatal" ELSE "loaded"
  /\ UNCHANGED <<limiterVars, apiVars, countVars, runs, apiKey, entered, quota,
                 state,
                 puuid_cache, diskVars, loopVars, envVars, histVars>>

\* lines 172-173: a number x is typed at the prompt; int(input) is int() of
\* the builtin function, whatever was typed, and raises TypeError, so the
\* script form of the program ends here.
Prompt ==
  /\ pc = "loaded"
  /\ \E x \in 0..MaxQ : entered' = x
  /\ pc' = "crashed"
  /\ UNCHANGED <<limiterVars, apiVars, countVars, runs, apiKey, quota, state,
                 puuid_cache, diskVars, loopVars, envVars, histVars>>

\* lines 127-128: collect_data(matches_per_tier = q), called on the loaded
\* module.
CollectData ==
  /\ pc = "loaded"
  /\ \E q \in 0..MaxQ : quota' = q
  /\ state' = LoadState(stateFile)
  /\ ti' = 1 /\ di' = 1
  /\ pc' = "bucket"
  /\ UNCHANGED <<limiterVars, apiVars, countVars, runs, apiKey, entered,
                 puuid_cache,
                 diskVars, page, collected, done, players, puuid, matches,
                 envVars, histVars>>

\* lines 130-140: the next bucket begins
BeginBucket ==
  /\ pc = "bucket"
  /\ visited' = Append(visited, <<Tier, Division>>)
  /\ collected' = 0
  /\ page' = StateGet(state, Tier, Division)
  /\ done' = FALSE
  /\ pc' = WhilePc(0, quota, FALSE)
  /\ UNCHANGED <<limiterVars, apiVars, countVars, runs, apiKey, entered, quota,
                 state,
                 puuid_cache, diskVars, ti, di, players, puuid, matches, envVars,
                 firstListing, lastReq, lookups, nwrites, lastSave, lastResolve,
                 disk0>>

\* What a request of the run got: a 429 ("retry"), a non-empty payload
\* ("data"), or nothing: an empty payload or None.
Got(a) ==
  CASE a.kind = "retry" -> "retry"
    [] a.kind = "raise" -> "raise"
    [] a.kind = "json" /\ a.val # <<>> -> "data"
    [] OTHER -> "nothing"

\* One iteration of make_api_call at a call site of the run, on response r.
Issue(a, r, req) ==
  /\ clock' = a.clock
  /\ request_timestamps' = a.ts
  /\ admits' = admits + a.admits
  /\ requests' = requests + 1
  /\ lastReq' = [req EXCEPT !.got = Got(a)]
  /\ served' = IF a.kind = "retry" \/ Truthy(a) THEN served + 1 ELSE served
  /\ UNCHANGED <<frozen, runs, apiKey, entered, quota, ti, di, page, visited,
                 disk0>>

\* lines 141-143 (and 83-85)
GetPlayers ==
  /\ pc = "get_players"
  /\ \E r \in RunResponses(PlayerLists) :
       LET a == Attempt(clock, request_timestamps, r) IN
       /\ Issue(a, r, Req("listing", page, 0))
       /\ firstListing' =
            IF firstListing[<<Tier, Division>>] = 0
            THEN [firstListing EXCEPT ![<<Tier, Division>>] = page]
            ELSE firstListing
       /\ pc' = CASE a.kind = "retry" -> pc
                  [] a.kind = "raise" -> "crashed"
                  [] NoPlayers(a) -> "end_bucket"
                  [] OTHER -> "for_player"
       /\ players' = IF a.kind = "json" THEN a.val ELSE players
  /\ UNCHANGED <<state, puuid_cache, diskVars, collected, done, puuid, matches,
                 lookups, nwrites, lastSave, lastResolve>>

\* lines 145-151 (and 88-89): the head of the loop over the players, up to
\* the next API call
ForPlayer ==
  /\ pc = "for_player"
  /\ IF players = <<>>
     THEN /\ pc' = "page_end"
          /\ UNCHANGED <<done, players, puuid>>
     ELSE IF QuotaMet(collected, quota)
     THEN /\ done' = TRUE
          /\ players' = <<>>
          /\ pc' = "page_end"
          /\ UNCHANGED puuid
     ELSE IF ~InCache(puuid_cache, Head(players))
     THEN /\ pc' = "get_puuid"
          /\ UNCHANGED <<done, players, puuid>>
     ELSE IF puuid_cache[Head(players)] = NoPuuid
     THEN /\ players' = Tail(players)
          /\ UNCHANGED <<pc, done, puuid>>
     ELSE /\ puuid' = puuid_cache[Head(players)]
          /\ pc' = "get_matches"
          /\ UNCHANGED <<done, players>>
  /\ lastResolve' =
       IF players # <<>> /\ ~QuotaMet(collected, quota)
                         /\ InCache(puuid_cache, Head(players))
       THEN [id |-> Head(players), hit |-> TRUE, val |-> puuid_cache[Head(players)]]
       ELSE lastResolve
  /\ UNCHANGED <<limiterVars, apiVars, countVars, runs, apiKey, entered, quota,
                 state,
                 puuid_cache, diskVars, ti, di, page, collected, matches,
                 envVars, visited, firstListing, lastReq, lookups, nwrites,
                 lastSave, disk0>>

\* lines 90-94 and 150-151: the account lookup of the current player
GetPuuid ==
  /\ pc = "get_puuid"
  /\ LET s == Head(players) IN
     \E r \in RunResponses({<<PuuidOf(s)>>}) :
       LET a == Attempt(clock, request_timestamps, r)
           p == PuuidField(a)
       IN
       /\ Issue(a, r, Req("lookup", page, s))
       /\ CASE a.kind = "retry" ->
                 UNCHANGED <<pc, puuid_cache, lookups, players, puuid, lastResolve>>
            [] a.kind = "raise" ->
                 /\ pc' = "crashed"
                 /\ lookups' = [lookups EXCEPT ![s] = @ + 1]
                 /\ UNCHANGED <<puuid_cache, players, puuid, lastResolve>>
            [] OTHER ->
                 /\ puuid_cache' = CacheStore(puuid_cache, s, p)
                 /\ lookups' = [lookups EXCEPT ![s] = @ + 1]
                 /\ lastResolve' = [id |-> s, hit |-> FALSE, val |-> p]
                 /\ IF p = NoPuuid
                    THEN /\ players' = Tail(players)
                         /\ pc' = "for_player"
                         /\ UNCHANGED puuid
                    ELSE /\ puuid' = p
                         /\ pc' = "get_matches"
                         /\ UNCHANGED players
  /\ UNCHANGED <<state, diskVars, collected, done, matches, firstListing,
                 nwrites, lastSave>>

\* lines 96-98 and 153-154
GetMatches ==
  /\ pc = "get_matches"
  /\ \E r \in RunResponses(MatchLists) :
       LET a == Attempt(clock, request_timestamps, r) IN
       /\ Issue(a, r, Req("matches", page, puuid))
       /\ CASE a.kind = "retry" -> UNCHANGED <<pc, matches>>
            [] a.kind = "raise" -> pc' = "crashed" /\ UNCHANGED matches
            [] OTHER ->
                 /\ matches' = Take(IF a.kind = "json" THEN a.val ELSE <<>>, SliceLen)
                 /\ pc' = "for_match"
  /\ UNCHANGED <<state, puuid_cache, diskVars, collected, done, players, puuid,
                 firstListing, lookups, nwrites, lastSave, lastResolve>>

\* lines 154-158 (and 100-107): the head of the loop over the matches, up to
\* the next API call
ForMatch ==
  /\ pc = "for_match"
  /\ IF matches = <<>>
     THEN /\ players' = Tail(players)
          /\ pc' = "for_player"
          /\ UNCHANGED <<done, matches, lastSave>>
     ELSE IF QuotaMet(collected, quota)
     THEN /\ done' = TRUE
          /\ matches' = <<>>
          /\ players' = Tail(players)
          /\ pc' = "for_player"
          /\ UNCHANGED lastSave
     ELSE IF Exists(FilePath(Head(matches), Tier, Division), files)
     THEN /\ matches' = Tail(matches)
          /\ lastSave' = [path |-> FilePath(Head(matches), Tier, Division),
                          ret |-> "exists"]
          /\ UNCHANGED <<pc, done, players>>
     ELSE /\ pc' = "save_match"
          /\ UNCHANGED <<done, players, matches, lastSave>>
  /\ UNCHANGED <<limiterVars, apiVars, countVars, runs, apiKey, entered, quota,
                 state,
                 puuid_cache, diskVars, ti, di, page, collected, puuid, envVars,
                 visited, firstListing, lastReq, lookups, nwrites, lastResolve,
                 disk0>>

\* lines 109-117 and 158-160: the match is fetched and stored
SaveMatch ==
  /\ pc = "save_match"
  /\ LET m == Head(matches)
         path == FilePath(m, Tier, Division)
     IN
     \E r \in RunResponses({<<m>>}) :
       LET a == Attempt(clock, request_timestamps, r) IN
       /\ Issue(a, r, Req("detail", page, m))
       /\ CASE a.kind = "retry" ->
                 UNCHANGED <<pc, matches, files, csv, nwrites, collected, lastSave>>
            [] a.kind = "raise" ->
                 /\ pc' = "crashed"
                 /\ UNCHANGED <<matches, files, csv, nwrites, collected, lastSave>>
            [] Truthy(a) ->
                 /\ files' = files \cup {path}
                 /\ csv' = SaveMatchIdCsv(csv, m, Tier, Division)
                 /\ nwrites' = nwrites + 1
                 /\ collected' = collected + 1
                 /\ lastSave' = [path |-> path, ret |-> "stored"]
                 /\ matches' = Tail(matches)
                 /\ pc' = "for_match"
            [] OTHER ->
                 /\ lastSave' = [path |-> path, ret |-> "failed"]
                 /\ matches' = Tail(matches)
                 /\ pc' = "for_match"
                 /\ UNCHANGED <<files, csv, nwrites, collected>>
  /\ UNCHANGED <<state, puuid_cache, stateFile, done, players, puuid,
                 firstListing, lookups, lastResolve>>

\* lines 162-165 and 140: the checkpoint, the next page, the pause
PageEnd ==
  /\ pc = "page_end"
  /\ state' = StateSet(state, Tier, Division, page)
  /\ stateFile' = SaveState(state')
  /\ page' = page + 1
  /\ clock' = clock + PageSleep
  /\ pc' = WhilePc(collected, quota, done)
  /\ UNCHANGED <<request_timestamps, frozen, countVars, runs, apiKey, entered,
                 quota,
                 puuid_cache, files, csv, ti, di, collected, done, players,
                 puuid, matches, envVars, histVars>>

\* lines 167-170 and the two for statements: after the while loop
EndBucket ==
  /\ pc = "end_bucket"
  /\ IF Tier = "DIAMOND" /\ Division = "I"
     THEN pc' = "returned" /\ UNCHANGED <<ti, di>>
     ELSE IF di < Len(DivisionsToProcess(Tier))
     THEN pc' = "bucket" /\ di' = di + 1 /\ UNCHANGED ti
     ELSE IF ti < Len(TIERS)
     THEN pc' = "bucket" /\ ti' = ti + 1 /\ di' = 1
     ELSE pc' = "returned" /\ UNCHANGED <<ti, di>>
  /\ UNCHANGED <<limiterVars, apiVars, countVars, runs, apiKey, entered, quota,
                 state,
                 puuid_cache, diskVars, page, collected, done, players, puuid,
                 matches, envVars, histVars>>

\* The program is started again after a run that returned.
Rerun ==
  /\ pc = "returned"
  /\ runs < MaxRuns
  /\ runs' = runs + 1
  /\ apiKey' \in BOOLEAN
  /\ Fresh
  /\ disk0' = Disk
  /\ UNCHANGED <<frozen, diskVars, envVars, nwrites>>

RunOff ==
  /\ pc = "off"
  /\ runs = 0
  /\ apiKey = FALSE
  /\ entered = NotEntered
  /\ quota = 0
  /\ state = NoEntries
  /\ stateFile = [exists |-> FALSE, data |-> NoEntries]
  /\ puuid_cache = [s \in Ids |-> NotCached]
  /\ files = {}
  /\ csv = [exists |-> FALSE, rows |-> <<>>]
  /\ ti = 1 /\ di = 1 /\ page = 1 /\ collected = 0 /\ done = FALSE
  /\ players = <<>> /\ puuid = NoPuuid /\ matches = <<>>
  /\ served = 0
  /\ visited = <<>>
  /\ firstListing = NoEntries
  /\ lastReq = NoReq
  /\ lookups = [s \in Ids |-> 0]
  /\ nwrites = 0
  /\ lastSave = NoSave
  /\ lastResolve = NoResolve
  /\ disk0 = [files |-> {}, csv |-> [exists |-> FALSE, rows |-> <<>>],
              stateFile |-> [exists |-> FALSE, data |-> NoEntries]]

\* The first process starts on an empty directory.
RunInit ==
  /\ clock = 0
  /\ request_timestamps = <<>>
  /\ admitLog = <<>>
  /\ ticks = 0
  /\ requests = 0
  /\ admits = 0
  /\ ApiOff
  /\ pc = "startup"
  /\ runs = 1
  /\ apiKey \in BOOLEAN
  /\ entered = NotEntered
  /\ quota = 0
  /\ state = NoEntries
  /\ stateFile = [exists |-> FALSE, data |-> NoEntries]
  /\ puuid_cache = [s \in Ids |-> NotCached]
  /\ files = {}
  /\ csv = [exists |-> FALSE, rows |-> <<>>]
  /\ ti = 1 /\ di = 1 /\ page = 1 /\ collected = 0 /\ done = FALSE
  /\ players = <<>> /\ puuid = NoPuuid /\ matches = <<>>
  /\ served = 0
  /\ visited = <<>>
  /\ firstListing = NoEntries
  /\ lastReq = NoReq
  /\ lookups = [s \in Ids |-> 0]
  /\ nwrites = 0
  /\ lastSave = NoSave
  /\ lastResolve = NoResolve
  /\ disk0 = [files |-> {}, csv |-> [exists |-> FALSE, rows |-> <<>>],
              stateFile |-> [exists |-> FALSE, data |-> NoEntries]]

\* The process is killed between two steps of collect_data and the program is
\* started again in the same environment: the files stay as they are.
Kill ==
  /\ pc \in {"bucket", "get_players", "for_player", "get_puuid", "get_matches",
             "for_match", "save_match", "page_end", "end_bucket"}
  /\ runs < MaxRuns
  /\ runs' = runs + 1
  /\ Fresh
  /\ disk0' = Disk
  /\ UNCHANGED <<frozen, apiKey, diskVars, envVars, nwrites>>

\* lines 109-114: the process is killed inside save_match, after the match
\* file was written and closed (line 113) and before save_match_id_csv
\* appended its row (line 114), and the program is started again.
KillInSaveMatch ==
  /\ pc = "save_match"
  /\ served < MaxServed
  /\ runs < MaxRuns
  /\ files' = files \cup {FilePath(Head(matches), Tier, Division)}
  /\ nwrites' = nwrites + 1
  /\ served' = served + 1
  /\ runs' = runs + 1
  /\ Fresh
  /\ disk0' = [Disk EXCEPT !.files = files']
  /\ UNCHANGED <<frozen, apiKey, stateFile, csv>>

RunNext ==
  \/ Startup \/ Prompt \/ CollectData \/ BeginBucket \/ GetPlayers
  \/ ForPlayer \/ GetPuuid \/ GetMatches \/ ForMatch \/ SaveMatch
  \/ PageEnd \/ EndBucket \/ Rerun

Spec == RunInit /\ [][RunNext]_vars

\* The run, every step of which is taken when it can be.
SpecFair == Spec /\ WF_vars(RunNext)

\* The run with kills and restarts.
CrashNext == RunNext \/ Kill \/ KillInSaveMatch

SpecCrash == RunInit /\ [][CrashNext]_vars

\* ------------------------------------------------ the limiter on its own --
LimiterInit ==
  /\ clock = 0
  /\ request_timestamps = <<>>
  /\ admitLog = <<>>
  /\ ticks = 0
  /\ requests = 0
  /\ admits = 0
  /\ ApiOff
  /\ RunOff

\* Time passes between two calls.
Tick ==
  /\ ticks < MaxTicks
  /\ clock' = clock + 1
  /\ ticks' = ticks + 1
  /\ UNCHANGED <<request_timestamps, admitLog, apiVars, countVars, runVars>>

\* One call of rate_limit_sleep().
Admit ==
  /\ Len(admitLog) < MaxCalls
  /\ LET r == RateLimitSleep(clock, request_timestamps)
     IN  /\ clock' = r.clock
         /\ request_timestamps' = r.ts
         /\ admitLog' = Append(admitLog, [stamp |-> r.stamp, ret |-> r.clock])
  /\ admits' = admits + 1
  /\ UNCHANGED <<ticks, apiVars, requests, runVars>>

LimiterNext == Tick \/ Admit

SpecLimiter == LimiterInit /\ [][LimiterNext]_vars

\* ------------------------------------------- make_api_call on its own ----
\* One call of make_api_call(url) in a fresh process; the server answers each
\* request with any response.
ApiBodies == {<<>>, <<1>>, <<1, 2>>}
ApiResponses ==
  Failures \cup {Throttled(h) : h \in RetryAfterHeaders}
           \cup {Success(b) : b \in ApiBodies}

ApiInit ==
  /\ clock = 0
  /\ request_timestamps = <<>>
  /\ admitLog = <<>>
  /\ ticks = 0
  /\ apiPc = "calling"
  /\ script = <<>>
  /\ sleeps = <<>>
  /\ result = [kind |-> "none", val |-> <<>>]
  /\ requests = 0
  /\ admits = 0
  /\ RunOff

\* One iteration of the while loop of make_api_call.
ApiAttempt ==
  /\ apiPc = "calling"
  /\ requests < MaxAttempts
  /\ \E r \in ApiResponses :
       LET a == Attempt(clock, request_timestamps, r) IN
       /\ clock' = a.clock
       /\ request_timestamps' = a.ts
       /\ admitLog' = Append(admitLog, [stamp |-> a.stamp, ret |-> a.admitted])
       /\ requests' = requests + 1
       /\ admits' = admits + a.admits
       /\ script' = Append(script, r)
       /\ sleeps' = IF a.kind = "retry" THEN Append(sleeps, a.sleep) ELSE sleeps
       /\ apiPc' = CASE a.kind = "retry" -> "calling"
                      [] a.kind = "raise" -> "raised"
                      [] OTHER -> "done"
       /\ result' = IF a.kind = "json" THEN [kind |-> "json", val |-> a.val]
                                       ELSE result
  /\ UNCHANGED <<ticks, runVars>>

ApiNext == ApiAttempt

SpecApi == ApiInit /\ [][ApiNext]_vars

\* ------------------------------------------------------------- claims ----
\* Number of admit() calls that returned in the window (t - Window, t].
ReturnedIn(t) ==
  Cardinality({i \in DOMAIN admitLog :
                 admitLog[i].ret > t - Window /\ admitLog[i].ret <= t})

\* C1: at every time t, at most REQUEST_LIMIT admit() calls have returned in
\* the trailing window (t - W, t].
C1_RateBound == \A t \in 0..clock : ReturnedIn(t) <= REQUEST_LIMIT

\* C2: from an empty history, with no time passing but the limiter's own
\* sleeps, the (N+1)-th admit() does not return before W has elapsed since the
\* timestamp of the 1st.
C2_BurstWaitsWindow ==
  (ticks = 0 /\ Len(admitLog) > REQUEST_LIMIT)
    => admitLog[REQUEST_LIMIT + 1].ret >= admitLog[1].stamp + Window

C2_Witness ==
  /\ ticks = 0
  /\ Len(admitLog) > REQUEST_LIMIT
  /\ admitLog[REQUEST_LIMIT + 1].ret = admitLog[1].stamp + Window

Last(q) == q[Len(q)]

\* C3: a script of k 429 responses and one success makes call(url) sleep once
\* per 429 for its retry-after, admit k+1 times, issue k+1 requests and
\* return the payload; it never returns on a 429.
C3_RetriesUntilSuccess ==
  apiPc = "done" =>
    /\ ~IsThrottle(Last(script))
    /\ IsSuccess(Last(script)) =>
         /\ result = [kind |-> "json", val |-> Last(script).body]
         /\ requests = Len(script)
         /\ admits = Len(script)
         /\ Len(sleeps) = Len(script) - 1
         /\ \A i \in DOMAIN sleeps :
              sleeps[i] = RetryAfter(script[i]).val * TicksPerSecond

InBucket ==
  pc \in {"get_players", "for_player", "get_puuid", "get_matches", "for_match",
          "save_match", "page_end", "end_bucket"}

\* The index rows of the match file f in the index c.
RowsOf(c, f) ==
  {i \in DOMAIN c.rows :
     /\ ~c.rows[i].header
     /\ FilePath(c.rows[i].match_id, c.rows[i].tier, c.rows[i].division) = f}

Issued(kind) == requests' = requests + 1 /\ lastReq'.kind = kind

\* C4: a match whose file exists under its bucket's folder is never fetched
\* again, never written again and never appended to the index again; a match
\* stored once has one file write and one index row, and a save_match call on
\* it returns False (collected is not incremented).
C4_StoredOnce ==
  /\ [](/\ nwrites = Cardinality(files)
        /\ \A f \in files : Cardinality(RowsOf(csv, f)) = 1)
  /\ [][/\ Issued("detail") =>
             FilePath(lastReq'.id, lastReq'.tier, lastReq'.division) \notin files
        /\ \A f \in files : f \in files' /\ RowsOf(csv', f) = RowsOf(csv, f)
        /\ nwrites' # nwrites =>
             /\ nwrites' = nwrites + 1
             /\ Cardinality(files' \ files) = 1
             /\ Len(csv'.rows) = Len(csv.rows) + (IF csv.exists THEN 1 ELSE 2)
        /\ (lastSave'.ret = "exists" /\ pc = "for_match" /\ matches' # matches) =>
             /\ lastSave'.path \in files
             /\ UNCHANGED <<requests, files, csv, nwrites, collected>>
        ]_vars

C4_Witness ==
  /\ lastSave.ret = "exists"
  /\ lastSave.path \in files
  /\ nwrites = 1
  /\ Cardinality(RowsOf(csv, lastSave.path)) = 1

\* The page the checkpoint file held for bucket b when the process started,
\* or 1.
ResumePage(b) ==
  IF disk0.stateFile.exists /\ disk0.stateFile.data[b] # 0
  THEN disk0.stateFile.data[b]
  ELSE 1

\* C5: the first listing request of a run for a bucket is for the page the
\* loaded checkpoint holds for it, or for page 1 when it holds none.
C5_ResumesAtCheckpoint ==
  \A b \in Buckets : firstListing[b] # 0 => firstListing[b] = ResumePage(b)

C5_Witness ==
  \E b \in Buckets :
    /\ disk0.stateFile.exists
    /\ disk0.stateFile.data[b] >= 2
    /\ firstListing[b] = disk0.stateFile.data[b]

\* C6: in one process every summoner id is looked up at most once, on the
\* first get_puuid call for it, whatever the lookup returned; a None result is
\* cached and later calls return it without a request.
C6_OneLookupPerSummoner ==
  /\ [](\A s \in Ids : /\ lookups[s] <= 1
                        /\ lookups[s] = 1 <=> puuid_cache[s] # NotCached)
  /\ [][/\ Issued("lookup") => puuid_cache[lastReq'.id] = NotCached
        /\ \A s \in Ids : puuid_cache[s] # NotCached /\ runs' = runs =>
               /\ puuid_cache'[s] = puuid_cache[s]
               /\ lookups'[s] = lookups[s]
        /\ (lastResolve' # lastResolve /\ lastResolve'.hit) =>
               /\ requests' = requests
               /\ lastResolve'.val = puuid_cache[lastResolve'.id]
        ]_vars

C6_Witness ==
  /\ lastResolve.hit
  /\ lastResolve.val = NoPuuid
  /\ lookups[lastResolve.id] = 1

\* The match files written, and the index rows appended, by this run for the
\* current bucket.
WrittenHere ==
  {f \in files \ disk0.files : f[1] = Lower(Tier) /\ f[2] = Division}
AppendedHere ==
  {i \in DOMAIN csv.rows \ DOMAIN disk0.csv.rows :
     /\ ~csv.rows[i].header
     /\ csv.rows[i].tier = Tier
     /\ csv.rows[i].division = Division}

\* C7: collected is incremented exactly when save_match returns True; it
\* equals the files written and the rows appended for the bucket in this run
\* and never exceeds the quota; once it equals the quota no request is issued
\* for the bucket.
C7_Quota ==
  /\ [](InBucket => /\ collected <= quota
                    /\ collected = Cardinality(WrittenHere)
                    /\ collected = Cardinality(AppendedHere))
  /\ [][/\ (collected' = collected + 1) <=> (nwrites' = nwrites + 1)
        /\ (collected' = collected + 1) => lastSave'.ret = "stored"
        /\ (InBucket /\ collected = quota) => requests' = requests
        ]_vars

C7_Witness ==
  /\ InBucket
  /\ quota >= 1
  /\ collected = quota
  /\ Cardinality(WrittenHere) = quota

\* The rank of a tier and of a division: tiers upwards, division I first.
TierRank(t) == CHOOSE i \in DOMAIN AllTiers : AllTiers[i] = t
DivisionRank(d) == CHOOSE i \in DOMAIN AllDivisions : AllDivisions[i] = d
TopTier == CHOOSE t \in Range(TIERS) :
             \A u \in Range(TIERS) : TierRank(u) <= TierRank(t)

\* b is processed before c in the order of the claim.
Before(b, c) ==
  \/ TierRank(b[1]) < TierRank(c[1])
  \/ /\ b[1] = c[1]
     /\ IF b[1] = TopTier
        THEN DivisionRank(b[2]) > DivisionRank(c[2])
        ELSE DivisionRank(b[2]) < DivisionRank(c[2])

\* C8: the buckets are processed in one order, tiers upwards, divisions
\* I..IV below the topmost tier and IV..I in it, none skipped and none twice;
\* when division I of the topmost tier is done the run ends, and a run that
\* has ended issues no request and writes nothing.
C8_OrderAndCutoff ==
  /\ [](/\ \A i, j \in DOMAIN visited : i < j => Before(visited[i], visited[j])
        /\ \A b \in Buckets : \A i \in DOMAIN visited :
              Before(b, visited[i]) => \E j \in 1..i : visited[j] = b
        /\ pc = "returned" => Last(visited) = <<TopTier, "I">>)
  /\ [][/\ (pc = "end_bucket" /\ Last(visited) = <<TopTier, "I">>) =>
               pc' = "returned"
        /\ (pc = "returned" /\ runs' = runs) =>
               UNCHANGED <<requests, admits, files, csv, stateFile>>
        ]_vars

C8_Witness ==
  /\ pc = "returned"
  /\ quota >= 1
  /\ Len(visited) = Cardinality(Buckets)
  /\ Cardinality(files) < quota

\* C10: with the credential absent the process stops in the error state
\* before any admission, request, checkpoint write or archive write.
C10_MissingKeyIsFatal ==
  ~apiKey =>
    /\ pc \in {"startup", "fatal"}
    /\ admits = 0
    /\ requests = 0
    /\ request_timestamps = <<>>
    /\ Disk = disk0

C10_Witness == ~apiKey /\ pc = "fatal"

\* ------------------------------------------------------------------ C11 --
\* C11: once a number has been typed at the prompt of a process whose key is
\* set, the process has not died before the loop and the quota of
\* collect_data is the number that was typed.
C11_PromptedQuota ==
  (~KeyMissing(apiKey) /\ entered # NotEntered) =>
    (pc # "crashed" /\ quota = entered)

\* ------------------------------------------------------------------ C12 --
\* C12: a 429 whose Retry-After header is absent or is not an integer makes
\* make_api_call sleep the default 10 seconds and go round the loop again,
\* through rate_limit_sleep: the call does not end on that response.
NoRetryAfter(r) ==
  IsThrottle(r) /\ (r.retryAfter = Absent \/ PyInt(r.retryAfter).err # "no")

C12_DefaultRetryAfter ==
  \A i \in DOMAIN script :
    NoRetryAfter(script[i]) =>
      /\ i < Len(script) \/ apiPc = "calling"
      /\ i <= Len(sleeps)
      /\ sleeps[i] = DefaultRetryAfter * TicksPerSecond
      /\ admits = Len(script)

\* ------------------------------------------------------------------ C13 --
\* C13: every call of rate_limit_sleep appends exactly one timestamp to
\* request_timestamps, and that timestamp is the time at which the call
\* returns, also when the call slept.
C13_StampIsReturnTime ==
  /\ Len(admitLog) = admits
  /\ \A i \in DOMAIN admitLog : admitLog[i].stamp = admitLog[i].ret
  /\ admitLog # <<>> =>
       /\ request_timestamps # <<>>
       /\ Last(request_timestamps) = Last(admitLog).stamp

\* ------------------------------------------------------------------ C14 --
\* C14: every HTTP request of the run is issued by an iteration of
\* make_api_call that called rate_limit_sleep first, so at every point the
\* requests issued are at most the rate_limit_sleep calls that returned, and
\* the last request has its own timestamp in request_timestamps.
C14_SingleChokepoint ==
  /\ requests <= admits
  /\ requests > 0 =>
       /\ lastReq.kind \in {"listing", "lookup", "matches", "detail"}
       /\ request_timestamps # <<>>
       /\ Last(request_timestamps) <= clock

\* a 429 retry of a match-detail request, after the three other kinds
C14_Witness ==
  /\ lastReq.kind = "detail"
  /\ lastReq.got = "retry"
  /\ requests >= 4
  /\ admits = requests

\* ------------------------------------------------------------------ C15 --
\* The pcs between two pages: the page before `page` has been processed and
\* no listing request for `page`, or for another bucket, has followed it.
BetweenPages == pc \in {"get_players", "end_bucket", "bucket", "returned"}

\* C15: once a page p of a bucket has been processed (its listing was not
\* empty), state.json holds p for that bucket until the next listing request,
\* for page p+1 or for another bucket, whatever was collected on the page.
C15_CheckpointPerPage ==
  (BetweenPages /\ visited # <<>>) =>
    LET b == Last(visited) IN
    page > ResumePage(b) =>
      /\ stateFile.exists
      /\ stateFile.data[b] = page - 1
      /\ state[b] = page - 1

\* two pages processed with nothing collected, the second one persisted
C15_Witness ==
  /\ pc = "get_players"
  /\ quota > 0
  /\ collected = 0
  /\ page = ResumePage(<<Tier, Division>>) + 2
  /\ stateFile.data[<<Tier, Division>>] = page - 1

\* ------------------------------------------------------------------ C16 --
\* C16: for every bucket the page held by state.json never decreases: each
\* write is at least the value the process loaded and at least every value
\* written before it.
C16_CheckpointMonotone ==
  /\ [](\A b \in Buckets : stateFile.data[b] >= disk0.stateFile.data[b])
  /\ [][\A b \in Buckets : stateFile'.data[b] >= stateFile.data[b]]_vars

\* a process that loaded page p >= 1 for a bucket has written a later page
C16_Witness ==
  \E b \in Buckets :
    /\ disk0.stateFile.data[b] >= 1
    /\ stateFile.data[b] > disk0.stateFile.data[b]

\* ------------------------------------------------------------------ C17 --
\* C17: a listing that returns an empty list or None ends the bucket at once
\* and without an exception: nothing is written to state.json or to the
\* archive for that page, the next step goes to the next bucket (or returns,
\* after the last one) and the next request, if any, is a listing of another
\* bucket.
C17_BucketExhaustion ==
  [][/\ (Issued("listing") /\ lastReq'.got = "nothing") =>
          /\ pc' = "end_bucket"
          /\ UNCHANGED <<state, stateFile, files, csv, page, collected>>
     /\ pc = "end_bucket" =>
          /\ UNCHANGED <<requests, state, stateFile, files, csv>>
          /\ IF Tier = "DIAMOND" /\ Division = "I"
             THEN pc' = "returned"
             ELSE pc' = "bucket" /\ <<ti', di'>> # <<ti, di>>
     /\ (requests' = requests + 1 /\ lastReq.kind = "listing"
                                  /\ lastReq.got = "nothing") =>
          /\ lastReq'.kind = "listing"
          /\ <<lastReq'.tier, lastReq'.division>>
               # <<lastReq.tier, lastReq.division>>
    ]_vars

\* the listing of the second page of a bucket gave nothing and the run is at
\* the next bucket, the checkpoint still at the first page
C17_Witness ==
  /\ pc = "bucket"
  /\ lastReq.kind = "listing"
  /\ lastReq.got = "nothing"
  /\ lastReq.page >= 2
  /\ collected < quota
  /\ stateFile.data[Last(visited)] = lastReq.page - 1

\* ------------------------------------------------------------------ C18 --
\* C18: when the match-detail call of save_match gives nothing (None, or an
\* empty payload), save_match returns False: no file and no index row exist
\* for the match, collected is unchanged, and a later save_match for the same
\* bucket and match goes to the API again.
C18_FailedFetchNoTrace ==
  [][/\ (Issued("detail") /\ lastReq'.got = "nothing") =>
          /\ lastSave' = [path |-> FilePath(lastReq'.id, Tier, Division),
                          ret |-> "failed"]
          /\ UNCHANGED <<files, csv, nwrites, collected>>
          /\ lastSave'.path \notin files'
          /\ RowsOf(csv', lastSave'.path) = {}
     /\ (/\ pc = "for_match" /\ matches # <<>>
         /\ ~QuotaMet(collected, quota)
         /\ lastSave.ret = "failed"
         /\ lastSave.path = FilePath(Head(matches), Tier, Division)) =>
          pc' = "save_match"
    ]_vars

\* the match whose fetch failed is being fetched again
C18_Witness ==
  /\ pc = "save_match"
  /\ lastSave.ret = "failed"
  /\ lastSave.path = FilePath(Head(matches), Tier, Division)
  /\ lastReq.kind = "detail"
  /\ lastReq.got = "nothing"
  /\ lastSave.path \notin files

\* ------------------------------------------------------------------ C19 --
\* The index rows that name match file f, and the match file a row names.
FileOfRow(row) == FilePath(row.match_id, row.tier, row.division)

\* C19: whatever kills and restarts came before, once a run has finished
\* every match file has exactly one row in match_ids.csv and every row of
\* match_ids.csv has its match file.
C19_CrashConsistent ==
  pc = "returned" =>
    /\ \A f \in files : Cardinality(RowsOf(csv, f)) = 1
    /\ \A i \in DOMAIN csv.rows :
         ~csv.rows[i].header => FileOfRow(csv.rows[i]) \in files

\* ------------------------------------------------------------------ C20 --
\* The pcs at which a process has ended.
Final == {"returned", "fatal", "crashed"}

\* A measure of what a run has left to do, when every API call gets finitely
\* many 429s and every listing runs out (the server budget MaxServed): the
\* restarts left, the buckets not begun, the server's budget, the players and
\* the match ids left on the page, and the position in the loop body.
PerPlayer == 2 * SliceLen + 5
LongestPage == CHOOSE n \in {Len(q) : q \in PlayerLists} :
                 \A q \in PlayerLists : Len(q) <= n
Step == PerPlayer * (LongestPage + 1)
BodyRank ==
  CASE pc \in Final -> 0
    [] pc = "bucket" -> 1
    [] pc \in {"end_bucket", "loaded"} -> 2
    [] pc \in {"get_players", "startup"} -> 3
    [] pc = "page_end" -> 4
    [] pc = "for_player" -> PerPlayer * Len(players) + 2 * SliceLen + 4
    [] pc = "get_puuid" -> PerPlayer * Len(players) + 2 * SliceLen + 3
    [] pc = "get_matches" -> PerPlayer * Len(players) + 2 * SliceLen + 2
    [] pc = "for_match" -> PerPlayer * Len(players) + 2 * Len(matches) + 1
    [] pc = "save_match" -> PerPlayer * Len(players) + 2 * Len(matches)
Rank ==
  (MaxRuns - runs) * (Cardinality(Buckets) + MaxServed + 1) * Step
    + (Cardinality(Buckets) - Len(visited) + MaxServed - served) * Step
    + BodyRank

\* C20: a run of collect_data terminates, for every quota, checkpoint and
\* archive: every step of the run lowers a measure that is never negative
\* and at most Step above the buckets and the server budget left, no state
\* before the end is stuck, and a run whose steps are taken reaches its end.
C20_Terminates ==
  /\ [](Rank >= 0 /\ BodyRank < Step)
  /\ [][Rank' < Rank]_vars
  /\ [](pc \notin Final => ENABLED RunNext)
  /\ (pc \notin Final) ~> (pc \in Final)

\* a run has ended with its quota unmet, after it met a match already in the
\* archive
C20_Witness ==
  /\ pc = "returned"
  /\ quota = MaxQ
  /\ nwrites < quota
  /\ lastSave.ret = "exists"
  /\ served = MaxServed
====
